---- MODULE Spec2Model ----
(***************************************************************************)
(* The ClusterDeployment reconciler of certman-operator                     *)
(* (controllers/clusterdeployment/clusterdeployment_controller.go).         *)
(*                                                                         *)
(* The store holds one ClusterDeployment (cd) and the CertificateRequests   *)
(* of its namespace (crs).  A reconciliation pass is a sequence of steps,   *)
(* one per store call or loop iteration of Reconcile and                    *)
(* syncCertificateRequests; pc is the position of the pass.                 *)
(*                                                                         *)
(* Strings that the code takes apart (names, domains, annotation values)    *)
(* are sequences of tokens; opaque strings are TLA+ strings.                *)
(***************************************************************************)
EXTENDS Integers, Sequences, FiniteSets, TLC

VARIABLES
    cd,                   \* the stored ClusterDeployment
    cdExists,             \* FALSE: the ClusterDeployment is gone from the store
    env,                  \* the environment of the operator's process: name -> value
    crs,                  \* stored CertificateRequests of the namespace: name -> object
    faulty,               \* TRUE while store and provider calls may fail
    pc,                   \* position of the current pass
    lcd,                  \* the pass's in-memory copy of the ClusterDeployment
    observed,             \* history: the ClusterDeployment as the pass fetched it
    crs0,                 \* history: the stored requests when the pass started
    currentCRs,           \* syncCertificateRequests: currentCRs
    desiredCRs,           \* syncCertificateRequests: desiredCRs
    deleteCRs,            \* syncCertificateRequests: deleteCRs
    certBundleStatusList, \* syncCertificateRequests: certBundleStatusList
    errs,                 \* syncCertificateRequests: len(errs)
    idx,                  \* index of the loop the pass is in
    outcome,              \* how the current pass ended
    ops,                  \* the writes the current pass issued and the provider
                          \* failures it met, in order
    prevOutcome           \* how the previous pass ended

vars == <<cd, cdExists, env, crs, faulty, pc, lcd, observed, crs0, currentCRs, desiredCRs,
          deleteCRs, certBundleStatusList, errs, idx, outcome, ops, prevOutcome>>

\* Longest CertificateBundles list drawn for a ClusterDeployment.
MaxBundles == 2

----------------------------------------------------------------------------
(* Strings *)

ClusterDeploymentManagedLabel == "api.openshift.com/managed"
hiveRelocationAnnotation == "hive.openshift.io/relocate"
hiveRelocationOutgoingValue == <<"outgoing">>
fakeClusterDeploymentAnnotation == "managed.openshift.com/fake"
CertmanOperatorFinalizerLabel == "certificaterequests.certman.managed.openshift.io"
HiveFinalizer == "hive.openshift.io/deprovision"
TrueString == <<"true">>
FalseString == <<"false">>
EXTRA_RECORD == <<"rh-api">>

RECURSIVE SplitFrom(_, _, _)
SplitFrom(s, sep, acc) ==
    IF s = <<>> THEN <<acc>>
    ELSE IF Head(s) = sep THEN <<acc>> \o SplitFrom(Tail(s), sep, <<>>)
    ELSE SplitFrom(Tail(s), sep, Append(acc, Head(s)))

\* strings.Split(s, sep): the pieces of s between the separators, at least one.
Split(s, sep) == SplitFrom(s, sep, <<>>)

HasPrefix(s, p) == Len(s) >= Len(p) /\ SubSeq(s, 1, Len(p)) = p

TrimPrefix(s, p) == IF HasPrefix(s, p) THEN SubSeq(s, Len(p) + 1, Len(s)) ELSE s

LowerOf(ch) == CASE ch = "A" -> "a" [] ch = "B" -> "b" [] OTHER -> ch

ToLower(s) == [i \in 1..Len(s) |-> LowerOf(s[i])]

\* utils.ContainsString(list, s)
ContainsString(list, s) == \E i \in 1..Len(list) : list[i] = s

\* utils.RemoveString(list, s)
RemoveString(list, s) == SelectSeq(list, LAMBDA x : x # s)

RECURSIVE Perms(_)
Perms(S) ==
    IF S = {} THEN {<<>>}
    ELSE UNION {{<<x>> \o p : p \in Perms(S \ {x})} : x \in S}

Range(s) == {s[i] : i \in 1..Len(s)}

----------------------------------------------------------------------------
(* Domain Resolver and Request Builder *)

\* fmt.Sprintf("%s.%s.%s", label, cd.Spec.ClusterName, cd.Spec.BaseDomain)
RecordFor(label, c) == label \o <<".">> \o c.Spec.ClusterName \o <<".">> \o c.Spec.BaseDomain

\* os.Getenv(key): the value of the variable, the empty string if it is not set.
Getenv(key) == IF key \in DOMAIN env THEN env[key] ELSE <<>>

\* The default control plane records of a bundle.
DefaultDomains(cb, c) ==
    LET userDomain == Getenv("EXTRA_RECORD")
    IN IF c.Spec.ControlPlaneConfig.ServingCertificates.Default = cb.Name
       THEN <<RecordFor(<<"api">>, c)>>
            \o (IF userDomain # <<>> THEN <<RecordFor(userDomain, c)>> ELSE <<>>)
       ELSE <<>>

\* The domains of the additional control plane certificates named like the bundle.
AdditionalDomains(cb, c) ==
    LET add == c.Spec.ControlPlaneConfig.ServingCertificates.Additional
        hit == SelectSeq(add, LAMBDA a : a.Name = cb.Name)
    IN [i \in 1..Len(hit) |-> hit[i].Domain]

\* WildcardDomain that prefixes every ingress domain.
WildcardDomain_Always(d) == <<"*", ".">> \o d

\* always request wildcard certificates for the ingress domain
WildcardDomain(d) == IF ~HasPrefix(d, <<"*", ".">>) THEN <<"*", ".">> \o d ELSE d

\* The wildcard domains of the ingresses served by the bundle.
IngressDomains(cb, c) ==
    LET hit == SelectSeq(c.Spec.Ingress, LAMBDA g : g.ServingCertificate = cb.Name)
    IN [i \in 1..Len(hit) |-> WildcardDomain(hit[i].Domain)]

getDomainsForCertBundle(cb, c) ==
    DefaultDomains(cb, c) \o AdditionalDomains(cb, c) \o IngressDomains(cb, c)

NoPlatform == [GCP |-> <<>>, AWS |-> <<>>, Azure |-> <<>>]

\* PlatformFor that sets each populated block and keeps the blocks set before it.
PlatformFor_KeepsEarlier(c) ==
    LET p == c.Spec.Platform
    IN [GCP   |-> IF p.GCP # <<>>
                  THEN <<[Credentials |-> [Name |-> p.GCP[1].CredentialsSecretRef.Name]]>>
                  ELSE <<>>,
        AWS   |-> IF p.AWS # <<>>
                  THEN <<[Credentials |-> [Name |-> p.AWS[1].CredentialsSecretRef.Name],
                          Region |-> p.AWS[1].Region]>>
                  ELSE <<>>,
        Azure |-> IF p.Azure # <<>>
                  THEN <<[Credentials |-> [Name |-> p.Azure[1].CredentialsSecretRef.Name],
                          ResourceGroupName |-> p.Azure[1].BaseDomainResourceGroupName]>>
                  ELSE <<>>]

\* The platform secrets of a request: each populated block replaces the whole
\* Platform value, in the order GCP, AWS, Azure.
PlatformFor(c) ==
    LET p  == c.Spec.Platform
        p1 == IF p.GCP # <<>>
              THEN [NoPlatform EXCEPT !.GCP =
                       <<[Credentials |-> [Name |-> p.GCP[1].CredentialsSecretRef.Name]]>>]
              ELSE NoPlatform
        p2 == IF p.AWS # <<>>
              THEN [NoPlatform EXCEPT !.AWS =
                       <<[Credentials |-> [Name |-> p.AWS[1].CredentialsSecretRef.Name],
                          Region |-> p.AWS[1].Region]>>]
              ELSE p1
    IN IF p.Azure # <<>>
       THEN [NoPlatform EXCEPT !.Azure =
                <<[Credentials |-> [Name |-> p.Azure[1].CredentialsSecretRef.Name],
                   ResourceGroupName |-> p.Azure[1].BaseDomainResourceGroupName]>>]
       ELSE p2

\* strings.ToLower(fmt.Sprintf("%s-%s", cd.Name, certBundleName))
RequestName(c, certBundleName) == ToLower(c.Name \o <<"-">> \o certBundleName)

createCertificateRequest(certBundleName, secretName, domains, c, emailAddress) ==
    [Name            |-> RequestName(c, certBundleName),
     Namespace       |-> c.Namespace,
     OwnerReferences |-> <<>>,
     Spec            |-> [ACMEDNSDomain     |-> c.Spec.BaseDomain,
                          CertificateSecret |-> [Kind      |-> "secret",
                                                 Namespace |-> c.Namespace,
                                                 Name      |-> secretName],
                          DnsNames          |-> domains,
                          Email             |-> emailAddress,
                          APIURL            |-> c.Status.APIURL,
                          WebConsoleURL     |-> c.Status.WebConsoleURL,
                          Platform          |-> PlatformFor(c)],
     Status          |-> [Issued |-> FALSE]]

\* controllerutil.SetControllerReference(cd, &desiredCR, r.Scheme)
SetControllerReference(c, cr) == [cr EXCEPT !.OwnerReferences = <<c.Name>>]

\* The address utils.GetDefaultNotificationEmailAddress returns when it succeeds.
DefaultNotificationEmailAddress == "sre@example.com"

----------------------------------------------------------------------------
(* The ClusterDeployments and stored CertificateRequests the passes start from *)

BundleNames == {<<"A">>, <<"a">>, <<"B">>}

SecretFor(name) ==
    CASE name = <<"A">> -> "primary-cert-bundle-secret"
      [] name = <<"a">> -> "additional-cert-bundle-secret"
      [] OTHER          -> "apps-cert-bundle-secret"

Bundles ==
    {[Name |-> n, Generate |-> g, CertificateSecretRef |-> [Name |-> SecretFor(n)]] :
        n \in BundleNames, g \in BOOLEAN}

\* The bundle lists of at most k bundles with pairwise different names.
RECURSIVE BundleLists(_)
BundleLists(k) ==
    IF k = 0 THEN {<<>>}
    ELSE LET shorter == BundleLists(k - 1)
             longest == {l \in shorter : Len(l) = k - 1}
             fresh   == {q \in longest \X Bundles :
                            \A i \in 1..Len(q[1]) : q[1][i].Name # q[2].Name}
         IN shorter \cup {Append(q[1], q[2]) : q \in fresh}

EmptyMap == [k \in {} |-> <<>>]

LabelChoices ==
    {EmptyMap,
     ClusterDeploymentManagedLabel :> TrueString,
     ClusterDeploymentManagedLabel :> FalseString}

FakeChoices == {EmptyMap, fakeClusterDeploymentAnnotation :> TrueString}

RelocateChoices ==
    {EmptyMap,
     hiveRelocationAnnotation :> <<"relocate-a", "/", "outgoing">>,
     hiveRelocationAnnotation :> <<"relocate-a", "/", "complete">>,
     hiveRelocationAnnotation :> <<"outgoing">>}

AdditionalChoices ==
    {<<>>, <<[Name |-> <<"a">>, Domain |-> <<"api2", ".", "foo", ".", "example.com">>]>>}

Gates ==
    [Labels      : LabelChoices,
     Fake        : FakeChoices,
     Relocate    : RelocateChoices,
     Installed   : BOOLEAN,
     Deleting    : BOOLEAN,
     Finalizers  : {<<HiveFinalizer>>, <<HiveFinalizer, CertmanOperatorFinalizerLabel>>}]

\* A managed, installed cluster that is neither fake, relocating nor being deleted
\* and already carries the finalizer.
ActiveGate ==
    [Labels      |-> ClusterDeploymentManagedLabel :> TrueString,
     Fake        |-> EmptyMap,
     Relocate    |-> EmptyMap,
     Installed   |-> TRUE,
     Deleting    |-> FALSE,
     Finalizers  |-> <<HiveFinalizer, CertmanOperatorFinalizerLabel>>]

MkCD(g, bundles, additional) ==
    [Name              |-> <<"c">>,
     Namespace         |-> "uhc-production-c",
     Labels            |-> g.Labels,
     Annotations       |-> g.Fake @@ g.Relocate,
     DeletionTimestamp |-> IF g.Deleting THEN 1 ELSE 0,
     Finalizers        |-> g.Finalizers,
     Spec   |-> [Installed   |-> g.Installed,
                 ClusterName |-> <<"foo">>,
                 BaseDomain  |-> <<"example.com">>,
                 ControlPlaneConfig |->
                     [ServingCertificates |->
                         [Default |-> <<"A">>, Additional |-> additional]],
                 Ingress |-> <<[Name |-> "default",
                                Domain |-> <<"apps", ".", "foo", ".", "example.com">>,
                                ServingCertificate |-> <<"B">>]>>,
                 Platform |-> [GCP   |-> <<>>,
                               AWS   |-> <<[CredentialsSecretRef |-> [Name |-> "aws"],
                                            Region |-> "us-east-1"]>>,
                               Azure |-> <<>>],
                 CertificateBundles |-> bundles],
     Status |-> [APIURL             |-> "https://api.foo.example.com:6443",
                 WebConsoleURL      |-> "https://console.foo.example.com",
                 CertificateBundles |-> <<>>]]

\* The request an earlier successful pass stored for the bundle named n.
StoredFor(n, issued) ==
    LET c  == MkCD(ActiveGate, <<>>, CHOOSE a \in AdditionalChoices : a # <<>>)
        cb == [Name |-> n, Generate |-> TRUE,
               CertificateSecretRef |-> [Name |-> SecretFor(n)]]
        cr == createCertificateRequest(n, SecretFor(n), getDomainsForCertBundle(cb, c),
                                       c, DefaultNotificationEmailAddress)
    IN [SetControllerReference(c, cr) EXCEPT !.Status.Issued = issued]

\* A request that another ClusterDeployment of the same namespace owns.
ForeignRequest ==
    [StoredFor(<<"A">>, TRUE) EXCEPT !.Name = <<"o", "-", "a">>,
                                     !.OwnerReferences = <<<<"o">>>>]

StoredCandidates ==
    {StoredFor(<<"A">>, TRUE), StoredFor(<<"a">>, FALSE), StoredFor(<<"B">>, FALSE),
     ForeignRequest}

\* The sets of stored requests: no two of one name.
StoredSets ==
    {S \in SUBSET StoredCandidates : \A x, y \in S : x.Name = y.Name => x = y}

StoreOf(S) == [n \in {x.Name : x \in S} |-> CHOOSE x \in S : x.Name = n]

FullContents ==
    [bundles : BundleLists(MaxBundles), additional : AdditionalChoices, stored : StoredSets]

\* The contents drawn for the clusters that are not ActiveGate.
SmallContents ==
    {k \in FullContents :
        /\ k.bundles \in {<<>>} \cup {l \in BundleLists(MaxBundles) :
                                          \A i \in 1..Len(l) : l[i].Generate /\ l[i].Name # <<"a">>}
        /\ k.additional = <<>>
        /\ k.stored \in {{}, {StoredFor(<<"A">>, TRUE), StoredFor(<<"B">>, FALSE), ForeignRequest}}}

----------------------------------------------------------------------------
(* Reconcile *)

Init ==
    /\ env = ("EXTRA_RECORD" :> EXTRA_RECORD)
    /\ \/ \E k \in FullContents :
             /\ cd = MkCD(ActiveGate, k.bundles, k.additional)
             /\ crs = StoreOf(k.stored)
             /\ cdExists = TRUE
       \/ \E g \in Gates, k \in SmallContents :
             /\ cd = MkCD(g, k.bundles, k.additional)
             /\ crs = StoreOf(k.stored)
             /\ cdExists \in (IF g = ActiveGate THEN BOOLEAN ELSE {TRUE})
    /\ faulty \in BOOLEAN
    /\ pc = "idle"
    /\ lcd = cd
    /\ observed = cd
    /\ crs0 = crs
    /\ currentCRs = <<>>
    /\ desiredCRs = <<>>
    /\ deleteCRs = <<>>
    /\ certBundleStatusList = <<>>
    /\ errs = 0
    /\ idx = 1
    /\ outcome = "none"
    /\ ops = <<>>
    /\ prevOutcome = "none"

syncVars == <<currentCRs, desiredCRs, deleteCRs, certBundleStatusList, errs, idx>>

\* A store write the pass issued: the call, the object's name, whether it succeeded.
Op(op, name, ok) == [op |-> op, name |-> name, ok |-> ok]

\* The pass returns: reconcile.Result{} with a nil or a non-nil error, or a panic.
Return(how) == pc' = "done" /\ outcome' = how

\* The outcomes with which the pass returns a non-nil error.
ErrorOutcomes ==
    {"getError", "handleDeleteError", "patchError", "listError", "emailError",
     "syncError", "deleteError"}

\* IsManaged with the test "!ok && val != true": only a missing label is unmanaged.
IsManaged_MissingOnly(c) == ClusterDeploymentManagedLabel \in DOMAIN c.Labels

\* Do not make certificate request if the cluster is not a Red Hat managed cluster.
IsManaged(c) ==
    /\ ClusterDeploymentManagedLabel \in DOMAIN c.Labels
    /\ c.Labels[ClusterDeploymentManagedLabel] = TrueString

\* Do not make certificate request if fake cluster
IsFake(c) ==
    /\ fakeClusterDeploymentAnnotation \in DOMAIN c.Annotations
    /\ c.Annotations[fakeClusterDeploymentAnnotation] = TrueString

\* strings.Split(v, "/")[1] of the relocation annotation: "panic" when the index
\* is out of range, else whether the cluster is being relocated.
Relocation(c) ==
    IF hiveRelocationAnnotation \notin DOMAIN c.Annotations THEN "no"
    ELSE LET parts == Split(c.Annotations[hiveRelocationAnnotation], "/")
         IN IF Len(parts) < 2 THEN "panic"
            ELSE IF parts[2] = hiveRelocationOutgoingValue THEN "yes" ELSE "no"

\* !cd.DeletionTimestamp.IsZero()
BeingDeleted(c) == c.DeletionTimestamp # 0

\* HasFinalizer looking for another controller's finalizer.
HasFinalizer_WrongLabel(c) == ContainsString(c.Finalizers, HiveFinalizer)

HasFinalizer(c) == ContainsString(c.Finalizers, CertmanOperatorFinalizerLabel)

\* Where the pass goes after the ClusterDeployment is fetched: the gates in order.
Gate(c) ==
    IF ~IsManaged(c) THEN "unmanaged"
    ELSE IF IsFake(c) THEN "fake"
    ELSE IF ~c.Spec.Installed THEN "notinstalled"
    ELSE IF Relocation(c) = "panic" THEN "panic"
    ELSE IF Relocation(c) = "yes" THEN "relocating"
    ELSE IF BeingDeleted(c)
         THEN (IF HasFinalizer(c) THEN "handleDelete" ELSE "nofinalizer")
    ELSE IF ~HasFinalizer(c) THEN "addFinalizer"
    ELSE "list"

\* Reconcile, from the Get of the ClusterDeployment to the end of the gates.
Reconcile ==
    /\ pc = "idle"
    /\ \/ /\ ~cdExists
          /\ Return("notfound")
          /\ UNCHANGED <<lcd, observed>>
       \/ /\ cdExists /\ faulty
          /\ Return("getError")
          /\ UNCHANGED <<lcd, observed>>
       \/ /\ cdExists
          /\ lcd' = cd
          /\ observed' = cd
          /\ IF Gate(cd) \in {"handleDelete", "addFinalizer", "list"}
             THEN pc' = Gate(cd) /\ UNCHANGED outcome
             ELSE Return(Gate(cd))
    /\ UNCHANGED <<cd, cdExists, env, crs, faulty, crs0, syncVars, ops, prevOutcome>>

\* The requests of the store that the ClusterDeployment owns.
OwnedBy(c) == {n \in DOMAIN crs : ContainsString(crs[n].OwnerReferences, c.Name)}

SetToSeq(S) == CHOOSE p \in Perms(S) : TRUE

Without(store, D) == [n \in (DOMAIN store) \ D |-> store[n]]

\* r.handleDelete(cd): deletes every CertificateRequest the ClusterDeployment owns
\* and returns the first error.
HandleDelete ==
    /\ pc = "handleDelete"
    /\ \/ /\ faulty
          /\ \E D \in SUBSET OwnedBy(lcd) :
                /\ D # OwnedBy(lcd) \/ OwnedBy(lcd) = {}
                /\ crs' = Without(crs, D)
                /\ ops' = ops \o [i \in 1..Cardinality(D) |-> Op("delete", SetToSeq(D)[i], TRUE)]
          /\ Return("handleDeleteError")
       \/ /\ crs' = Without(crs, OwnedBy(lcd))
          /\ ops' = ops \o [i \in 1..Cardinality(OwnedBy(lcd)) |->
                               Op("delete", SetToSeq(OwnedBy(lcd))[i], TRUE)]
          /\ pc' = "removeFinalizer"
          /\ UNCHANGED outcome
    /\ UNCHANGED <<cd, cdExists, env, faulty, lcd, observed, crs0, syncVars, prevOutcome>>

\* r.Client.Patch(obj, client.MergeFrom(base)): the merge patch carries the fields
\* of obj that differ from base's, and the store replaces those of the stored object.
MergePatch(stored, base, obj) ==
    [f \in DOMAIN stored |-> IF obj[f] # base[f] THEN obj[f] ELSE stored[f]]

\* PatchFinalizers whose patch carries the metadata of a new object: the finalizer
\* list and no annotation.
PatchFinalizers_ReplacesMetadata(list) ==
    [cd EXCEPT !.Finalizers = list, !.Annotations = EmptyMap]

\* Patch of the finalizer list: base is the copy of cd taken before the list changed.
PatchFinalizers(list) == MergePatch(cd, lcd, [lcd EXCEPT !.Finalizers = list])

\* removing CertmanOperator finalizer from the ClusterDeployment
RemoveFinalizer ==
    /\ pc = "removeFinalizer"
    /\ LET list == RemoveString(lcd.Finalizers, CertmanOperatorFinalizerLabel)
       IN \/ /\ faulty
             /\ ops' = Append(ops, Op("patchFinalizers", lcd.Name, FALSE))
             /\ lcd' = [lcd EXCEPT !.Finalizers = list]
             /\ Return("patchError")
             /\ UNCHANGED cd
          \/ /\ cd' = PatchFinalizers(list)
             /\ lcd' = [lcd EXCEPT !.Finalizers = list]
             /\ ops' = Append(ops, Op("patchFinalizers", lcd.Name, TRUE))
             /\ Return("finalized")
    /\ UNCHANGED <<cdExists, env, crs, faulty, observed, crs0, syncVars, prevOutcome>>

\* AddFinalizer that logs a failed Patch and goes on to the sync.
AddFinalizer_IgnoresError ==
    /\ pc = "addFinalizer"
    /\ LET list == Append(lcd.Finalizers, CertmanOperatorFinalizerLabel)
       IN /\ lcd' = [lcd EXCEPT !.Finalizers = list]
          /\ pc' = "list"
          /\ \/ /\ faulty
                /\ ops' = Append(ops, Op("patchFinalizers", lcd.Name, FALSE))
                /\ UNCHANGED cd
             \/ /\ cd' = PatchFinalizers(list)
                /\ ops' = Append(ops, Op("patchFinalizers", lcd.Name, TRUE))
    /\ UNCHANGED <<cdExists, env, crs, faulty, observed, crs0, syncVars, outcome, prevOutcome>>

\* adding CertmanOperator finalizer to the ClusterDeployment
AddFinalizer ==
    /\ pc = "addFinalizer"
    /\ LET list == Append(lcd.Finalizers, CertmanOperatorFinalizerLabel)
       IN \/ /\ faulty
             /\ ops' = Append(ops, Op("patchFinalizers", lcd.Name, FALSE))
             /\ lcd' = [lcd EXCEPT !.Finalizers = list]
             /\ Return("patchError")
             /\ UNCHANGED cd
          \/ /\ cd' = PatchFinalizers(list)
             /\ lcd' = [lcd EXCEPT !.Finalizers = list]
             /\ ops' = Append(ops, Op("patchFinalizers", lcd.Name, TRUE))
             /\ pc' = "list"
             /\ UNCHANGED outcome
    /\ UNCHANGED <<cdExists, env, crs, faulty, observed, crs0, syncVars, prevOutcome>>

----------------------------------------------------------------------------
(* syncCertificateRequests *)

\* getCurrentCertificateRequests: every CertificateRequest of the cluster's
\* namespace, in the order the store lists them.
getCurrentCertificateRequests(c) ==
    LET names == {n \in DOMAIN crs : crs[n].Namespace = c.Namespace}
    IN {[i \in 1..Len(p) |-> crs[p[i]]] : p \in Perms(names)}

\* get a list of current CertificateRequests
SyncList ==
    /\ pc = "list"
    /\ \/ /\ faulty
          /\ Return("listError")
          /\ UNCHANGED syncVars
       \/ /\ currentCRs' \in getCurrentCertificateRequests(lcd)
          /\ desiredCRs' = <<>>
          /\ idx' = 1
          /\ pc' = "bundles"
          /\ UNCHANGED <<deleteCRs, certBundleStatusList, errs, outcome>>
    /\ UNCHANGED <<cd, cdExists, env, crs, faulty, lcd, observed, crs0, ops, prevOutcome>>

\* What one generate-enabled bundle adds to desiredCRs.
DesiredFor(cb, c, emailAddress) ==
    LET domains == getDomainsForCertBundle(cb, c)
    IN IF Len(domains) > 0
       THEN <<createCertificateRequest(cb.Name, cb.CertificateSecretRef.Name, domains,
                                       c, emailAddress)>>
       ELSE <<>>

\* EmailFailure that logs the error and goes on with the next bundle.
EmailFailure_LoggedOnly(cb) ==
    /\ ops' = Append(ops, Op("email", cb.Name, FALSE))
    /\ idx' = idx + 1
    /\ UNCHANGED <<desiredCRs, pc, outcome>>

\* utils.GetDefaultNotificationEmailAddress fails: the error is returned at once.
EmailFailure(cb) ==
    /\ ops' = Append(ops, Op("email", cb.Name, FALSE))
    /\ Return("emailError")
    /\ UNCHANGED <<desiredCRs, idx>>

\* for each certbundle with generate==true make a CertificateRequest
SyncBundle ==
    /\ pc = "bundles"
    /\ idx <= Len(lcd.Spec.CertificateBundles)
    /\ LET cb == lcd.Spec.CertificateBundles[idx]
       IN \/ /\ ~cb.Generate
             /\ idx' = idx + 1
             /\ UNCHANGED <<desiredCRs, pc, outcome, ops>>
          \/ /\ cb.Generate /\ faulty
             /\ EmailFailure(cb)
          \/ /\ cb.Generate
             /\ desiredCRs' = desiredCRs \o DesiredFor(cb, lcd, DefaultNotificationEmailAddress)
             /\ idx' = idx + 1
             /\ UNCHANGED <<pc, outcome, ops>>
    /\ UNCHANGED <<cd, cdExists, env, crs, faulty, lcd, observed, crs0, currentCRs, deleteCRs,
                   certBundleStatusList, errs, prevOutcome>>

\* find any extra certificateRequests and mark them for deletion
MarkedForDeletion(current, desired) ==
    SelectSeq(current, LAMBDA cur : ~\E i \in 1..Len(desired) : desired[i].Name = cur.Name)

SyncMark ==
    /\ pc = "bundles"
    /\ idx > Len(lcd.Spec.CertificateBundles)
    /\ deleteCRs' = MarkedForDeletion(currentCRs, desiredCRs)
    /\ certBundleStatusList' = <<>>
    /\ errs' = 0
    /\ idx' = 1
    /\ pc' = "apply"
    /\ UNCHANGED <<cd, cdExists, env, crs, faulty, lcd, observed, crs0, currentCRs, desiredCRs,
                   outcome, ops, prevOutcome>>

\* reflect.DeepEqual(currentCR.Spec, desiredCR.Spec)
SpecEqual(currentCR, desiredCR) == currentCR.Spec = desiredCR.Spec

\* BundleStatus that reports every desired request as generated, whatever the
\* stored request says.
BundleStatus_FromDesired(desiredCR, c, generated) ==
    [Name |-> TrimPrefix(desiredCR.Name, c.Name \o <<"-">>), Generated |-> TRUE]

\* certBundleStatus of a desired request
BundleStatus(desiredCR, c, generated) ==
    [Name |-> TrimPrefix(desiredCR.Name, c.Name \o <<"-">>), Generated |-> generated]

\* create/update the desired certificaterequests: one iteration of the loop
SyncApply ==
    /\ pc = "apply"
    /\ idx <= Len(desiredCRs)
    /\ LET desiredCR == desiredCRs[idx]
           name      == desiredCR.Name
           found     == name \in DOMAIN crs
           owned     == SetControllerReference(lcd, desiredCR)
       IN \/ \* the Get fails with an error other than NotFound
             /\ faulty
             /\ errs' = errs + 1
             /\ certBundleStatusList' =
                    Append(certBundleStatusList, BundleStatus(desiredCR, lcd, FALSE))
             /\ UNCHANGED <<crs, ops>>
          \/ \* NotFound, SetControllerReference fails
             /\ ~found /\ faulty
             /\ errs' = errs + 1
             /\ UNCHANGED <<crs, ops, certBundleStatusList>>
          \/ \* NotFound, Create fails
             /\ ~found /\ faulty
             /\ errs' = errs + 1
             /\ ops' = Append(ops, Op("create", name, FALSE))
             /\ UNCHANGED <<crs, certBundleStatusList>>
          \/ \* NotFound, Create succeeds
             /\ ~found
             /\ crs' = (name :> owned) @@ crs
             /\ ops' = Append(ops, Op("create", name, TRUE))
             /\ certBundleStatusList' =
                    Append(certBundleStatusList, BundleStatus(desiredCR, lcd, FALSE))
             /\ UNCHANGED errs
          \/ \* found, the spec differs, Update fails
             /\ found /\ ~SpecEqual(crs[name], desiredCR) /\ faulty
             /\ errs' = errs + 1
             /\ ops' = Append(ops, Op("update", name, FALSE))
             /\ UNCHANGED <<crs, certBundleStatusList>>
          \/ \* found, the spec differs, Update succeeds
             /\ found /\ ~SpecEqual(crs[name], desiredCR)
             /\ crs' = [crs EXCEPT ![name].Spec = desiredCR.Spec]
             /\ ops' = Append(ops, Op("update", name, TRUE))
             /\ certBundleStatusList' =
                    Append(certBundleStatusList, BundleStatus(desiredCR, lcd, FALSE))
             /\ UNCHANGED errs
          \/ \* found, no update needed
             /\ found /\ SpecEqual(crs[name], desiredCR)
             /\ certBundleStatusList' =
                    Append(certBundleStatusList,
                           BundleStatus(desiredCR, lcd, crs[name].Status.Issued))
             /\ UNCHANGED <<crs, ops, errs>>
    /\ idx' = idx + 1
    /\ UNCHANGED <<cd, cdExists, env, faulty, pc, lcd, observed, crs0, currentCRs, desiredCRs,
                   deleteCRs, outcome, prevOutcome>>

\* cd.Status.CertificateBundles = certBundleStatusList; an error if any was met
SyncCollect ==
    /\ pc = "apply"
    /\ idx > Len(desiredCRs)
    /\ lcd' = [lcd EXCEPT !.Status.CertificateBundles = certBundleStatusList]
    /\ IF errs > 0
       THEN Return("syncError") /\ UNCHANGED idx
       ELSE pc' = "delete" /\ idx' = 1 /\ UNCHANGED outcome
    /\ UNCHANGED <<cd, cdExists, env, crs, faulty, observed, crs0, currentCRs, desiredCRs,
                   deleteCRs, certBundleStatusList, errs, ops, prevOutcome>>

\* SyncDelete that deletes the marked requests before the desired requests are
\* applied.
SyncDelete_BeforeApply ==
    /\ pc = "apply"
    /\ idx = 1
    /\ deleteCRs # <<>>
    /\ \A i \in 1..Len(ops) : ops[i].op # "delete"
    /\ crs' = Without(crs, {deleteCRs[i].Name : i \in 1..Len(deleteCRs)})
    /\ ops' = ops \o [i \in 1..Len(deleteCRs) |-> Op("delete", deleteCRs[i].Name, TRUE)]
    /\ UNCHANGED <<cd, cdExists, env, faulty, pc, lcd, observed, crs0, currentCRs,
                   desiredCRs, deleteCRs, certBundleStatusList, errs, idx, outcome,
                   prevOutcome>>

\* delete the certificaterequests: one iteration of the loop
SyncDelete ==
    /\ pc = "delete"
    /\ idx <= Len(deleteCRs)
    /\ LET name == deleteCRs[idx].Name
       IN \/ /\ faulty
             /\ ops' = Append(ops, Op("delete", name, FALSE))
             /\ Return("deleteError")
             /\ UNCHANGED <<crs, idx>>
          \/ /\ crs' = Without(crs, {name})
             /\ ops' = Append(ops, Op("delete", name, TRUE))
             /\ idx' = idx + 1
             /\ UNCHANGED <<pc, outcome>>
    /\ UNCHANGED <<cd, cdExists, env, faulty, lcd, observed, crs0, currentCRs, desiredCRs,
                   deleteCRs, certBundleStatusList, errs, prevOutcome>>

\* cd.DeepCopy(): a new object whose every field, Status included, equals the
\* source's at the time of the copy.
DeepCopy(c) == c

\* !reflect.DeepEqual(cd.Status, cdCopy.Status), cdCopy being cd.DeepCopy()
StatusDiffers(c) == c.Status # DeepCopy(c).Status

\* update the clusterDeployment certificateBundleStatus, and return nil
SyncStatus ==
    /\ pc = "delete"
    /\ idx > Len(deleteCRs)
    /\ \E ok \in (IF faulty THEN BOOLEAN ELSE {TRUE}) :
         IF StatusDiffers(lcd)
         THEN /\ ops' = Append(ops, Op("patchStatus", lcd.Name, ok))
              /\ cd' = IF ok
                       THEN [cd EXCEPT !.Status.CertificateBundles = certBundleStatusList]
                       ELSE cd
         ELSE UNCHANGED <<ops, cd>>
    /\ Return("synced")
    /\ UNCHANGED <<cdExists, env, crs, faulty, lcd, observed, crs0, syncVars, prevOutcome>>

----------------------------------------------------------------------------
(* The scheduler and the store's health *)

\* The controller's work queue starts the next pass for the ClusterDeployment.
NextPass ==
    /\ pc = "done"
    /\ pc' = "idle"
    /\ prevOutcome' = outcome
    /\ outcome' = "none"
    /\ ops' = <<>>
    /\ lcd' = cd
    /\ observed' = cd
    /\ crs0' = crs
    /\ currentCRs' = <<>>
    /\ desiredCRs' = <<>>
    /\ deleteCRs' = <<>>
    /\ certBundleStatusList' = <<>>
    /\ errs' = 0
    /\ idx' = 1
    /\ UNCHANGED <<cd, cdExists, env, crs, faulty>>

\* The store and the provider stop failing.
Recover ==
    /\ faulty
    /\ faulty' = FALSE
    /\ UNCHANGED <<cd, cdExists, env, crs, pc, lcd, observed, crs0, syncVars, outcome, ops,
                   prevOutcome>>

Next ==
    \/ Reconcile
    \/ HandleDelete
    \/ RemoveFinalizer
    \/ AddFinalizer
    \/ SyncList
    \/ SyncBundle
    \/ SyncMark
    \/ SyncApply
    \/ SyncCollect
    \/ SyncDelete
    \/ SyncStatus
    \/ NextPass
    \/ Recover

Spec == Init /\ [][Next]_vars

\* The pass steps: every action of a pass and the start of the next one.
Pass ==
    \/ Reconcile
    \/ HandleDelete
    \/ RemoveFinalizer
    \/ AddFinalizer
    \/ SyncList
    \/ SyncBundle
    \/ SyncMark
    \/ SyncApply
    \/ SyncCollect
    \/ SyncDelete
    \/ SyncStatus
    \/ NextPass

\* Passes keep being scheduled and run to their end, and the store and the
\* provider eventually stop failing.
LiveSpec == Init /\ [][Next]_vars /\ WF_vars(Pass) /\ WF_vars(Recover)

----------------------------------------------------------------------------
(* The Domain Resolver and the Request Builder on their own *)

\* Longest Additional and Ingress lists drawn for the Domain Resolver.
MaxEntries == 2

\* The sequences over S of at most k elements.
RECURSIVE SeqsUpTo(_, _)
SeqsUpTo(S, k) ==
    IF k = 0 THEN {<<>>}
    ELSE LET shorter == SeqsUpTo(S, k - 1)
         IN shorter \cup {Append(q[1], q[2]) : q \in {l \in shorter : Len(l) = k - 1} \X S}

\* cd.Spec.Platform: each of the three blocks nil or populated.
PlatformChoices ==
    [GCP   : {<<>>, <<[CredentialsSecretRef |-> [Name |-> "gcp"]]>>},
     AWS   : {<<>>,
              <<[CredentialsSecretRef |-> [Name |-> "aws"], Region |-> "us-east-1"]>>,
              <<[CredentialsSecretRef |-> [Name |-> "aws-2"], Region |-> "eu-west-1"]>>},
     Azure : {<<>>,
              <<[CredentialsSecretRef |-> [Name |-> "azure"],
                 BaseDomainResourceGroupName |-> "rg-dns"]>>}]

\* Additional control plane certificates: names that differ in case, one domain each.
AdditionalEntries ==
    {[Name |-> <<"A">>, Domain |-> <<"api2", ".", "foo", ".", "example.com">>],
     [Name |-> <<"a">>, Domain |-> <<"api3", ".", "foo", ".", "example.com">>]}

\* Ingresses: a plain domain, a wildcard domain, a domain that starts with "*"
\* but not with "*.", and an ingress another bundle serves.
IngressEntries ==
    {[Name |-> "default", Domain |-> <<"apps", ".", "foo", ".", "example.com">>,
      ServingCertificate |-> <<"A">>],
     [Name |-> "wild", Domain |-> <<"*", ".", "apps2", ".", "foo", ".", "example.com">>,
      ServingCertificate |-> <<"A">>],
     [Name |-> "star", Domain |-> <<"*", "apps3", ".", "foo", ".", "example.com">>,
      ServingCertificate |-> <<"A">>],
     [Name |-> "other", Domain |-> <<"apps", ".", "foo", ".", "example.com">>,
      ServingCertificate |-> <<"B">>]}

\* The process environments: EXTRA_RECORD not set, and set as the deployment sets it.
EnvChoices == {EmptyMap, "EXTRA_RECORD" :> EXTRA_RECORD}

\* The bundle the Domain Resolver and the Request Builder are applied to.
BuilderBundle ==
    [Name |-> <<"A">>, Generate |-> TRUE,
     CertificateSecretRef |-> [Name |-> SecretFor(<<"A">>)]]

\* The ClusterDeployments the Domain Resolver and the Request Builder are applied to.
BuilderClusters ==
    {[MkCD(ActiveGate, <<BuilderBundle>>, additional) EXCEPT
         !.Spec.ControlPlaneConfig.ServingCertificates.Default = default,
         !.Spec.Ingress = ingress,
         !.Spec.Platform = platform] :
        default \in {<<"A">>, <<"a">>},
        additional \in SeqsUpTo(AdditionalEntries, MaxEntries),
        ingress \in SeqsUpTo(IngressEntries, MaxEntries),
        platform \in PlatformChoices}

BuilderInit ==
    /\ env \in EnvChoices
    /\ cd \in BuilderClusters
    /\ cdExists = TRUE
    /\ crs = StoreOf({})
    /\ faulty = FALSE
    /\ pc = "builder"
    /\ lcd = cd
    /\ observed = cd
    /\ crs0 = crs
    /\ currentCRs = <<>>
    /\ desiredCRs = <<>>
    /\ deleteCRs = <<>>
    /\ certBundleStatusList = <<>>
    /\ errs = 0
    /\ idx = 1
    /\ outcome = "none"
    /\ ops = <<>>
    /\ prevOutcome = "none"

\* domains := getDomainsForCertBundle(cb, cd, logger) and
\* createCertificateRequest(cb.Name, cb.CertificateSecretRef.Name, domains, cd, emailAddress)
\* for the bundle, whatever the number of domains.
BuildRequest ==
    /\ pc = "builder"
    /\ LET cb      == lcd.Spec.CertificateBundles[idx]
           domains == getDomainsForCertBundle(cb, lcd)
       IN desiredCRs' = <<createCertificateRequest(cb.Name, cb.CertificateSecretRef.Name,
                                                    domains, lcd,
                                                    DefaultNotificationEmailAddress)>>
    /\ pc' = "built"
    /\ UNCHANGED <<cd, cdExists, env, crs, faulty, lcd, observed, crs0, currentCRs, deleteCRs,
                   certBundleStatusList, errs, idx, outcome, ops, prevOutcome>>

BuilderNext == BuildRequest

BuilderSpec == BuilderInit /\ [][BuilderNext]_vars

----------------------------------------------------------------------------
(* Properties *)

WriteOps == {"create", "update", "delete"}

\* The creates, updates and deletes of CertificateRequests the pass issued.
RequestWrites == SelectSeq(ops, LAMBDA o : o.op \in WriteOps)

Issued(op) == \E i \in 1..Len(ops) : ops[i].op = op

\* The pass has returned a nil error.
ReturnedNil == pc = "done" /\ outcome \notin ErrorOutcomes \cup {"panic"}

GenerateBundles(c) ==
    {c.Spec.CertificateBundles[i] : i \in {j \in 1..Len(c.Spec.CertificateBundles) :
                                             c.Spec.CertificateBundles[j].Generate}}

\* The request the Request Builder makes of a bundle that resolves domains.
RequestOf(cb, c) ==
    createCertificateRequest(cb.Name, cb.CertificateSecretRef.Name,
                             getDomainsForCertBundle(cb, c), c,
                             DefaultNotificationEmailAddress)

Resolves(cb, c) == getDomainsForCertBundle(cb, c) # <<>>

\* C1: once a full sync has returned nil, the next pass issues no create, no
\* update and no delete of a CertificateRequest.
C1_Idempotence == prevOutcome = "synced" => RequestWrites = <<>>

\* The write the Diff Planner plans for one desired request.
PlannedWrite(desiredCR) ==
    IF desiredCR.Name \notin DOMAIN crs0
    THEN <<[op |-> "create", name |-> desiredCR.Name]>>
    ELSE IF crs0[desiredCR.Name].Spec # desiredCR.Spec
         THEN <<[op |-> "update", name |-> desiredCR.Name]>>
         ELSE <<>>

RECURSIVE PlannedWrites(_)
PlannedWrites(desired) ==
    IF desired = <<>> THEN <<>>
    ELSE PlannedWrite(Head(desired)) \o PlannedWrites(Tail(desired))

PlannedDeletes ==
    {n \in DOMAIN crs0 : \A i \in 1..Len(desiredCRs) : desiredCRs[i].Name # n}

\* C2: a full sync whose store calls all succeed issues a create for each desired
\* request whose name is not stored, an update for each whose stored spec differs,
\* nothing for each whose stored spec is equal, and a delete for exactly the stored
\* requests that no desired request names.
C2_DiffCorrectness ==
    (pc = "done" /\ outcome = "synced") =>
        LET upserts == SelectSeq(ops, LAMBDA o : o.op \in {"create", "update"})
            deletes == SelectSeq(ops, LAMBDA o : o.op = "delete")
        IN /\ [i \in 1..Len(upserts) |-> [op |-> upserts[i].op, name |-> upserts[i].name]]
                = PlannedWrites(desiredCRs)
           /\ {deletes[i].name : i \in 1..Len(deletes)} = PlannedDeletes
           /\ Len(deletes) = Cardinality(PlannedDeletes)

\* C3: a pass that returns nil for a managed, installed cluster that is neither
\* fake nor relocating, is being deleted and carried the finalizer leaves no
\* request the cluster owns and no finalizer; a pass for a cluster that is being
\* deleted and lacks the finalizer writes nothing.
C3_FinalizerGating ==
    LET carried == CertmanOperatorFinalizerLabel \in Range(observed.Finalizers)
    IN /\ (/\ ReturnedNil /\ cdExists
           /\ IsManaged(observed) /\ ~IsFake(observed) /\ observed.Spec.Installed
           /\ Relocation(observed) = "no"
           /\ observed.DeletionTimestamp # 0 /\ carried)
          => /\ CertmanOperatorFinalizerLabel \notin Range(cd.Finalizers)
             /\ \A n \in DOMAIN crs : observed.Name \notin Range(crs[n].OwnerReferences)
       /\ (observed.DeletionTimestamp # 0 /\ ~carried)
          => (ops = <<>> /\ cd = observed /\ crs = crs0)

C3_Witness ==
    /\ pc = "done" /\ outcome = "finalized"
    /\ Cardinality({n \in DOMAIN crs0 : observed.Name \in Range(crs0[n].OwnerReferences)}) = 2
    /\ Len(RequestWrites) = 2
    /\ CertmanOperatorFinalizerLabel \notin Range(cd.Finalizers)

Unmanaged(c) ==
    \/ ClusterDeploymentManagedLabel \notin DOMAIN c.Labels
    \/ c.Labels[ClusterDeploymentManagedLabel] # TrueString

\* C4: no step of a pass for a cluster whose managed label is absent or is not
\* "true" writes to the store: the ClusterDeployment and the requests stay as
\* they are and no write is issued.
C4_UnmanagedSkip == [][Unmanaged(cd) => (cd' = cd /\ crs' = crs /\ ops' = <<>>)]_vars

C4_Witness ==
    /\ pc = "done" /\ outcome = "unmanaged"
    /\ ClusterDeploymentManagedLabel \in DOMAIN cd.Labels
    /\ cd.DeletionTimestamp # 0
    /\ CertmanOperatorFinalizerLabel \in Range(cd.Finalizers)
    /\ cd.Spec.CertificateBundles # <<>>
    /\ DOMAIN crs # {}

\* C5: a full sync that returns nil has issued a status patch carrying the
\* aggregated status if that status differs from the observed one, and no status
\* patch if it does not.
C5_StatusPatchOnChange ==
    (pc = "done" /\ outcome = "synced") =>
        IF certBundleStatusList # observed.Status.CertificateBundles
        THEN /\ Issued("patchStatus")
             /\ (\A i \in 1..Len(ops) : ops[i].ok)
                    => cd.Status.CertificateBundles = certBundleStatusList
        ELSE ~Issued("patchStatus")

\* A managed, installed cluster that is neither fake, relocating nor being deleted.
Active(c) ==
    /\ IsManaged(c) /\ ~IsFake(c) /\ c.Spec.Installed
    /\ Relocation(c) = "no" /\ ~BeingDeleted(c)

\* The store holds the request of every generate-enabled bundle that resolves a
\* domain, with its spec, and no other request of the cluster.
StoreHoldsDesired ==
    /\ \A cb \in GenerateBundles(cd) :
          Resolves(cb, cd) =>
             /\ RequestName(cd, cb.Name) \in DOMAIN crs
             /\ crs[RequestName(cd, cb.Name)].Spec = RequestOf(cb, cd).Spec
    /\ \A n \in OwnedBy(cd) :
          \E cb \in GenerateBundles(cd) : Resolves(cb, cd) /\ RequestName(cd, cb.Name) = n

\* C6: for an Active cluster the store eventually holds exactly the desired
\* requests, for good.
C6_EventualConsistency == (cdExists /\ Active(cd)) => <>[]StoreHoldsDesired

\* C7: after a full sync that returns nil no desired request stems from a bundle
\* without domains and every generate-enabled bundle that resolves a domain has its
\* request stored with its spec; after two such syncs in a row no request is
\* stored under the name of a generate-enabled bundle without domains.
C7_ZeroDomainIsolation ==
    (pc = "done" /\ outcome = "synced") =>
        /\ \A i \in 1..Len(desiredCRs) : desiredCRs[i].Spec.DnsNames # <<>>
        /\ \A cb \in GenerateBundles(observed) :
              IF Resolves(cb, observed)
              THEN /\ RequestName(observed, cb.Name) \in DOMAIN crs
                   /\ crs[RequestName(observed, cb.Name)].Spec = RequestOf(cb, observed).Spec
              ELSE prevOutcome = "synced" => RequestName(observed, cb.Name) \notin DOMAIN crs

\* C8: a full sync in which a generate-enabled bundle resolves no domain returns
\* a non-nil error.
C8_ValidationGapFailsPass ==
    (/\ pc = "done" /\ outcome \in {"synced", "syncError", "deleteError"}
     /\ \E cb \in GenerateBundles(observed) : ~Resolves(cb, observed))
    => outcome \in ErrorOutcomes

\* C9: once the notification-email provider has failed in a pass, the pass has
\* returned an error and has issued no create, update or delete of a request and
\* no status patch.
C9_ConfigurationFailureAborts ==
    Issued("email") =>
        /\ pc = "done" /\ outcome \in ErrorOutcomes
        /\ RequestWrites = <<>> /\ ~Issued("patchStatus")
        /\ crs = crs0 /\ cd.Status = observed.Status

C9_Witness ==
    /\ Issued("email")
    /\ idx > 1
    /\ desiredCRs # <<>>
    /\ DOMAIN crs # {}

\* C10: a pass for a cluster that passes the managed, fake and installed gates
\* returns a nil or a non-nil error; it does not panic.
C10_NoCrashPath ==
    (pc = "done" /\ cdExists /\ IsManaged(cd) /\ ~IsFake(cd) /\ cd.Spec.Installed)
    => outcome # "panic"

\* The stored requests that another ClusterDeployment owns.
Foreign(store, c) == {n \in DOMAIN store : ~ContainsString(store[n].OwnerReferences, c.Name)}

\* C11: no pass for the ClusterDeployment creates, updates or deletes a request
\* that another ClusterDeployment owns, of the same namespace or not: every such
\* request the store held when the pass started is still stored as it was.
C11_NoContention ==
    \A n \in Foreign(crs0, observed) : n \in DOMAIN crs /\ crs[n] = crs0[n]

FailedPatch == \E i \in 1..Len(ops) : ops[i].op = "patchFinalizers" /\ ~ops[i].ok

\* C12: whenever the store holds a request of the ClusterDeployment that the pass
\* created, the ClusterDeployment carries the finalizer; a pass whose finalizer
\* patch failed has returned an error and has created and updated no request; a
\* pass that removed the finalizer leaves no request the ClusterDeployment owns;
\* a pass whose deletion of the requests failed leaves the finalizer in place.
C12_FinalizerInvariant ==
    /\ (\E n \in OwnedBy(cd) : n \notin DOMAIN crs0) => HasFinalizer(cd)
    /\ FailedPatch =>
          /\ pc = "done" /\ outcome = "patchError"
          /\ ~Issued("create") /\ ~Issued("update")
          /\ HasFinalizer(cd) = HasFinalizer(observed)
    /\ (HasFinalizer(observed) /\ ~HasFinalizer(cd)) => OwnedBy(cd) = {}
    /\ (pc = "done" /\ outcome = "handleDeleteError") => HasFinalizer(cd)

C12_Witness ==
    /\ pc = "done" /\ outcome = "synced"
    /\ ~HasFinalizer(observed) /\ HasFinalizer(cd)
    /\ \E n \in OwnedBy(cd) : n \notin DOMAIN crs0

\* C13: after a full sync that returns nil for a ClusterDeployment all of whose
\* generate-enabled bundles resolve a domain, the store holds exactly one request
\* of the ClusterDeployment per generate-enabled bundle, bundles of different
\* names (names that differ only in letter case included) have requests of
\* different names, and each bundle's request carries the spec built from it.
C13_OneRequestPerBundle ==
    (/\ pc = "done" /\ outcome = "synced"
     /\ \A cb \in GenerateBundles(observed) : Resolves(cb, observed))
    => /\ Cardinality(OwnedBy(observed)) = Cardinality(GenerateBundles(observed))
       /\ \A b1, b2 \in GenerateBundles(observed) :
             b1.Name # b2.Name => RequestName(observed, b1.Name) # RequestName(observed, b2.Name)
       /\ \A cb \in GenerateBundles(observed) :
             /\ RequestName(observed, cb.Name) \in DOMAIN crs
             /\ crs[RequestName(observed, cb.Name)].Spec = RequestOf(cb, observed).Spec

Populated(platform) == {k \in {"GCP", "AWS", "Azure"} : platform[k] # <<>>}

\* C14: the request the Request Builder makes has at most one platform block
\* populated, none if the ClusterDeployment has none, and if the ClusterDeployment
\* has exactly one, the request has that one, with the ClusterDeployment's secret
\* name and its region (AWS) or resource group (Azure).
C14_OnePlatformBlock ==
    pc = "built" =>
        LET from == cd.Spec.Platform
            to   == desiredCRs[1].Spec.Platform
        IN /\ Cardinality(Populated(to)) <= 1
           /\ Populated(from) = {} => Populated(to) = {}
           /\ Cardinality(Populated(from)) = 1 =>
                 /\ Populated(to) = Populated(from)
                 /\ \A k \in Populated(from) :
                       /\ to[k][1].Credentials.Name = from[k][1].CredentialsSecretRef.Name
                       /\ k = "AWS" => to[k][1].Region = from[k][1].Region
                       /\ k = "Azure" =>
                             to[k][1].ResourceGroupName = from[k][1].BaseDomainResourceGroupName

C14_Witness ==
    /\ pc = "built"
    /\ Cardinality(Populated(cd.Spec.Platform)) = 3
    /\ Cardinality(Populated(desiredCRs[1].Spec.Platform)) = 1

\* C15: no step of a pass, in any gate outcome or on any error path, changes a
\* field of the stored ClusterDeployment other than the finalizer list and the
\* status: the spec, the labels and the annotations stay as they are.
C15_ParentSpecUntouched ==
    [][/\ cd'.Spec = cd.Spec /\ cd'.Labels = cd.Labels /\ cd'.Annotations = cd.Annotations
       /\ \A f \in DOMAIN cd \ {"Finalizers", "Status"} : cd'[f] = cd[f]
       /\ DOMAIN cd' = DOMAIN cd]_vars

C15_Witness ==
    /\ pc = "done" /\ outcome = "syncError"
    /\ cd.Finalizers # observed.Finalizers
    /\ DOMAIN cd.Annotations # {}
    /\ cd.Spec = observed.Spec /\ cd.Annotations = observed.Annotations

\* <label>.<cluster-name>.<base-domain>
Record(label, c) == <<label, ".">> \o c.Spec.ClusterName \o <<".">> \o c.Spec.BaseDomain

StartsWithWildcard(d) == Len(d) >= 2 /\ d[1] = "*" /\ d[2] = "."

\* The domains of the additional control plane entries named name, in order.
RECURSIVE ExpectedAdditional(_, _)
ExpectedAdditional(entries, name) ==
    IF entries = <<>> THEN <<>>
    ELSE (IF Head(entries).Name = name THEN <<Head(entries).Domain>> ELSE <<>>)
         \o ExpectedAdditional(Tail(entries), name)

\* The wildcard domains of the ingresses that name serves, in order.
RECURSIVE ExpectedIngress(_, _)
ExpectedIngress(entries, name) ==
    IF entries = <<>> THEN <<>>
    ELSE (IF Head(entries).ServingCertificate # name THEN <<>>
          ELSE IF StartsWithWildcard(Head(entries).Domain) THEN <<Head(entries).Domain>>
          ELSE <<(<<"*", ".">> \o Head(entries).Domain)>>)
         \o ExpectedIngress(Tail(entries), name)

ExpectedDomains(name, c, extra) ==
    (IF c.Spec.ControlPlaneConfig.ServingCertificates.Default # name THEN <<>>
     ELSE IF extra = <<>> THEN <<Record("api", c)>>
     ELSE <<Record("api", c), Record(extra[1], c)>>)
    \o ExpectedAdditional(c.Spec.ControlPlaneConfig.ServingCertificates.Additional, name)
    \o ExpectedIngress(c.Spec.Ingress, name)

\* C16: the Domain Resolver returns, in this order and with duplicates kept, the
\* api record and, if EXTRA_RECORD is set, the extra record, both only for the
\* default control plane bundle; the domain of every additional control plane
\* entry named like the bundle; the domain of every ingress the bundle serves,
\* with "*." put before it unless it starts with "*."; nothing else.
C16_DomainResolution ==
    pc = "built" =>
        desiredCRs[1].Spec.DnsNames =
            ExpectedDomains(cd.Spec.CertificateBundles[1].Name, cd,
                            IF "EXTRA_RECORD" \in DOMAIN env THEN env["EXTRA_RECORD"] ELSE <<>>)

\* Every source contributes, with a duplicate, a wildcard ingress and an
\* ingress that starts with "*" only.
C16_Witness ==
    /\ pc = "built"
    /\ "EXTRA_RECORD" \in DOMAIN env
    /\ Len(desiredCRs[1].Spec.DnsNames) = 6
    /\ desiredCRs[1].Spec.DnsNames[3] = desiredCRs[1].Spec.DnsNames[4]
    /\ desiredCRs[1].Spec.DnsNames[5] = <<"*", ".", "apps2", ".", "foo", ".", "example.com">>
    /\ desiredCRs[1].Spec.DnsNames[6] = <<"*", ".", "*", "apps3", ".", "foo", ".", "example.com">>

\* No source names the bundle: the list is empty.
C16_WitnessEmpty ==
    /\ pc = "built"
    /\ desiredCRs[1].Spec.DnsNames = <<>>
    /\ cd.Spec.Ingress # <<>>

Upsert(o) == o.op \in {"create", "update"}

\* C17: in the writes of a pass no delete of a request comes before a create or
\* an update of a request.
C17_ApplyOrdering ==
    \A i, j \in 1..Len(ops) : (i < j /\ ops[i].op = "delete") => ~Upsert(ops[j])

\* A full sync that created, updated and then deleted.
C17_Witness ==
    /\ pc = "done" /\ outcome = "synced"
    /\ Issued("create") /\ Issued("update")
    /\ ops[Len(ops)].op = "delete" /\ Upsert(ops[Len(ops) - 1])

FailedWrite == \E i \in 1..Len(ops) : ops[i].op \in WriteOps /\ ~ops[i].ok

\* C18: a full sync that has returned has attempted the delete of every request
\* of its delete set, whichever creates, updates and deletes failed, and has
\* returned an error if one of its creates, updates or deletes failed.
C18_BestEffort ==
    (pc = "done" /\ outcome \in {"synced", "syncError", "deleteError"}) =>
        /\ \A i \in 1..Len(deleteCRs) :
              \E j \in 1..Len(ops) : ops[j].op = "delete" /\ ops[j].name = deleteCRs[i].Name
        /\ FailedWrite => outcome \in ErrorOutcomes

\* One iteration of the create/update loop that adds an entry to the status list.
StatusAdded ==
    /\ pc = "apply" /\ idx <= Len(desiredCRs) /\ idx' = idx + 1
    /\ Len(certBundleStatusList') = Len(certBundleStatusList) + 1

\* The store holds a request of the desired request's name, of equal spec, issued.
StoredIssued(desiredCR) ==
    /\ desiredCR.Name \in DOMAIN crs
    /\ crs[desiredCR.Name].Spec = desiredCR.Spec
    /\ crs[desiredCR.Name].Status.Issued

\* The iteration wrote the request to the store.
Wrote(op) == ops' = Append(ops, Op(op, desiredCRs[idx].Name, TRUE))

\* A created or updated request is reported not generated, and an update replaces
\* the spec of the stored request and nothing else.
WrittenNotGenerated ==
    /\ (StatusAdded /\ (Wrote("create") \/ Wrote("update")))
       => ~certBundleStatusList'[Len(certBundleStatusList')].Generated
    /\ (pc = "apply" /\ idx <= Len(desiredCRs) /\ Wrote("update"))
       => crs' = [crs EXCEPT ![desiredCRs[idx].Name].Spec = desiredCRs[idx].Spec]

\* C19 as stated: the generated flag a full sync reports for a desired request is
\* true if and only if the store holds a request of its name with an equal spec
\* whose issued flag is true; it is false for a request the pass created or
\* updated, and an update leaves the stored issued flag as it is.
C19_GeneratedTieBreak_AsStated ==
    [][/\ StatusAdded =>
             (certBundleStatusList'[Len(certBundleStatusList')].Generated
                 <=> StoredIssued(desiredCRs[idx]))
       /\ WrittenNotGenerated]_vars

\* C19 amended: the same for a desired request whose lookup in the store answered
\* (found or not found); when the lookup failed the flag is false.
C19_GeneratedTieBreak ==
    [][/\ (StatusAdded /\ errs' = errs) =>
             (certBundleStatusList'[Len(certBundleStatusList')].Generated
                 <=> StoredIssued(desiredCRs[idx]))
       /\ (StatusAdded /\ errs' # errs) =>
             ~certBundleStatusList'[Len(certBundleStatusList')].Generated
       /\ WrittenNotGenerated]_vars

\* A full sync that updated an issued request: it is reported not generated and
\* is still issued in the store, with the desired spec.
C19_Witness ==
    /\ pc = "done" /\ outcome = "synced"
    /\ Len(desiredCRs) = 1 /\ Issued("update")
    /\ ~certBundleStatusList[1].Generated
    /\ crs[desiredCRs[1].Name].Status.Issued
    /\ crs[desiredCRs[1].Name].Spec = desiredCRs[1].Spec

\* A full sync that found an issued request unchanged and reported it generated.
C19_WitnessGenerated ==
    /\ pc = "done" /\ outcome = "synced"
    /\ Len(desiredCRs) = 1 /\ RequestWrites = <<>>
    /\ certBundleStatusList[1].Generated

\* C20: a ClusterDeployment that is being deleted and carries the finalizer
\* eventually has the finalizer removed, whatever its managed label, fake
\* annotation, installed flag and relocation annotation are, as long as passes
\* keep being scheduled and the store eventually stops failing.
C20_FinalizationCompletes ==
    (cdExists /\ BeingDeleted(cd) /\ HasFinalizer(cd)) => <>(~HasFinalizer(cd))

====
